---- MODULE Spec2Model ----
(***************************************************************************)
(* Model of src/jantar_filosofos.py: the dining philosophers with one      *)
(* threading.Lock per fork (talher) and one thread per philosopher.        *)
(*                                                                         *)
(* Every thread is a process whose position is pc[i]; one action is one    *)
(* step between two points where another thread can observe a difference   *)
(* (a lock operation, the increment of refeicoes, a thread start/join).    *)
(* The print calls and the sleeps change no state and are not modelled.    *)
(***************************************************************************)
EXTENDS Integers, FiniteSets, Sequences, TLC

\* ---------------------------------------------------------------- constants

\* NUM_FILOSOFOS of jantar_dos_filosofos, the default of max_refeicoes.
NUM_FILOSOFOS == 5
MAX_REFEICOES_PADRAO == 3

\* Bounds of the parametric specifications (ring sizes 2..MaxFilosofos,
\* targets 0..MaxRefeicoes).
MaxFilosofos == 3
MaxRefeicoes == 2

\* ---------------------------------------------------------------- state

VARIABLES
    num_filosofos,   \* N: number of philosophers and of forks
    max_refeicoes,   \* K: Filosofo.max_refeicoes (the same for every agent)
    philosopher_id,  \* philosopher_id[i]: the id handed to Filosofo.__init__
    talheres,        \* talheres[f]: TRUE iff the Lock f is locked
    pc,              \* pc[i]: position of thread i in Filosofo.run
    refeicoes,       \* refeicoes[i]: Filosofo.refeicoes
    falha,           \* falha[i]: the exception in flight / that ended thread i
    aquisicoes,      \* aquisicoes[i][f]: acquire() calls of i on f that returned
    liberacoes,      \* liberacoes[i][f]: release() calls of i on f that returned
    principal,       \* position of the main thread in jantar_dos_filosofos
    indice           \* loop index of the main thread's start / join loop

vars == <<num_filosofos, max_refeicoes, philosopher_id, talheres, pc, refeicoes,
          falha, aquisicoes, liberacoes, principal, indice>>

Filosofos == 0 .. (num_filosofos - 1)
Talheres == 0 .. (num_filosofos - 1)

\* The two Lock handles given to philosopher i (lines 123-124).
talher_esquerdo(i) == i
talher_direito(i) == (i + 1) % num_filosofos

\* pegar_talheres, lines 53-60: <<primeiro_talher, segundo_talher>>, the
\* acquisition order decided by the parity of the id.
OrdemUniforme(i) == <<talher_esquerdo(i), talher_direito(i)>>
OrdemInvertida(i) ==
    IF philosopher_id[i] % 2 = 0
        THEN <<talher_direito(i), talher_esquerdo(i)>>
        ELSE <<talher_esquerdo(i), talher_direito(i)>>
Ordem(i) ==
    IF philosopher_id[i] % 2 = 0
        THEN <<talher_esquerdo(i), talher_direito(i)>>
        ELSE <<talher_direito(i), talher_esquerdo(i)>>

PrimeiroTalher(i) == Ordem(i)[1]
SegundoTalher(i) == Ordem(i)[2]

\* devolver_talheres, lines 81 and 84: the forks released, in order.
DevolveDireitoDuasVezes(i) == <<talher_direito(i), talher_direito(i)>>
Devolvidos(i) == <<talher_direito(i), talher_esquerdo(i)>>

\* pegar_talheres, line 70: the fork given back when the second acquire fails.
RevertidoSegundo(i) == SegundoTalher(i)
Revertido(i) == PrimeiroTalher(i)

\* run, lines 98-101: where the thread goes when comer ends, normally or
\* (falhou) with an exception -- the finally clause calls devolver_talheres
\* on both paths.
AposComerSemFinally(falhou) == IF falhou THEN "terminou" ELSE "devolver"
AposComer(falhou) == "devolver"

\* threading.Lock: acquire() returns only when the lock is unlocked.
LivreSempre(f) == TRUE
Livre(f) == ~talheres[f]

\* Agent i holds fork f: it has acquired it and not yet released it.
Segura(i, f) == aquisicoes[i][f] > liberacoes[i][f]
Posse(i) == {f \in Talheres : Segura(i, f)}

\* The loop test of run (line 95), taken when the thread (re)enters the loop.
ProximoPassoMaisUm(r) == IF r <= max_refeicoes THEN "pensar" ELSE "terminou"
ProximoPasso(r) == IF r < max_refeicoes THEN "pensar" ELSE "terminou"

\* ---------------------------------------------------------------- Init

\* Filosofo.__init__ (lines 36-41) and the table built at lines 117-126.
InitCom(n, k, ids) ==
    /\ num_filosofos = n
    /\ max_refeicoes = k
    /\ philosopher_id = ids
    /\ talheres = [f \in 0 .. (n - 1) |-> FALSE]
    /\ pc = [i \in 0 .. (n - 1) |-> "criado"]
    /\ refeicoes = [i \in 0 .. (n - 1) |-> 0]
    /\ falha = [i \in 0 .. (n - 1) |-> "nenhuma"]
    /\ aquisicoes = [i \in 0 .. (n - 1) |-> [f \in 0 .. (n - 1) |-> 0]]
    /\ liberacoes = [i \in 0 .. (n - 1) |-> [f \in 0 .. (n - 1) |-> 0]]
    /\ principal = "iniciando"
    /\ indice = 0

\* Line 125: Filosofo(i, ...) -- the id is the position at the table.
Init ==
    \E n \in 2 .. MaxFilosofos, k \in 0 .. MaxRefeicoes :
        InitCom(n, k, [i \in 0 .. (n - 1) |-> i])

\* The program as written: 5 philosophers, 3 meals each.
InitJantar ==
    InitCom(NUM_FILOSOFOS, MAX_REFEICOES_PADRAO, [i \in 0 .. (NUM_FILOSOFOS - 1) |-> i])

\* The negative control: the same Filosofo class seated with even ids only
\* (Filosofo(2 * i, ...)), so that the test of line 53 makes every agent
\* acquire left-then-right.
InitUniforme ==
    \E n \in 2 .. MaxFilosofos, k \in 1 .. MaxRefeicoes :
        InitCom(n, k, [i \in 0 .. (n - 1) |-> 2 * i])

\* Thread.join() on philosopher i returns only when its thread has ended.
JuntouSemEsperar(i) == TRUE
Juntou(i) == pc[i] = "terminou"

\* ---------------------------------------------------------------- main thread

\* Lines 133-134: filosofo.start() for each philosopher in turn.
Iniciar ==
    /\ principal = "iniciando"
    /\ pc[indice] = "criado"
    /\ pc' = [pc EXCEPT ![indice] = "sentou"]
    /\ IF indice + 1 < num_filosofos
          THEN /\ indice' = indice + 1
               /\ principal' = principal
          ELSE /\ indice' = 0
               /\ principal' = "aguardando"
    /\ UNCHANGED <<num_filosofos, max_refeicoes, philosopher_id, talheres,
                   refeicoes, falha, aquisicoes, liberacoes>>

\* Lines 137-142: filosofo.join() for each philosopher in turn, then the
\* final banner.
Aguardar ==
    /\ principal = "aguardando"
    /\ Juntou(indice)
    /\ IF indice + 1 < num_filosofos
          THEN /\ indice' = indice + 1
               /\ principal' = principal
          ELSE /\ indice' = indice
               /\ principal' = "finalizado"
    /\ UNCHANGED <<num_filosofos, max_refeicoes, philosopher_id, talheres, pc,
                   refeicoes, falha, aquisicoes, liberacoes>>

\* ---------------------------------------------------------------- philosopher

\* Lines 92-95: the thread starts running and evaluates the loop test.
Sentar(i) ==
    /\ pc[i] = "sentou"
    /\ pc' = [pc EXCEPT ![i] = ProximoPasso(refeicoes[i])]
    /\ UNCHANGED <<num_filosofos, max_refeicoes, philosopher_id, talheres,
                   refeicoes, falha, aquisicoes, liberacoes, principal, indice>>

\* Line 96, pensar (lines 43-46): the sleep ends; the thread goes on to call
\* primeiro_talher.acquire().
Pensar(i) ==
    /\ pc[i] = "pensar"
    /\ pc' = [pc EXCEPT ![i] = "primeiro"]
    /\ UNCHANGED <<num_filosofos, max_refeicoes, philosopher_id, talheres,
                   refeicoes, falha, aquisicoes, liberacoes, principal, indice>>

\* Line 62: primeiro_talher.acquire() returns.
PegarPrimeiro(i) ==
    /\ pc[i] = "primeiro"
    /\ Livre(PrimeiroTalher(i))
    /\ talheres' = [talheres EXCEPT ![PrimeiroTalher(i)] = TRUE]
    /\ aquisicoes' = [aquisicoes EXCEPT ![i][PrimeiroTalher(i)] = @ + 1]
    /\ pc' = [pc EXCEPT ![i] = "segundo"]
    /\ UNCHANGED <<num_filosofos, max_refeicoes, philosopher_id, refeicoes,
                   falha, liberacoes, principal, indice>>

\* Line 66: segundo_talher.acquire() returns; pegar_talheres returns and run
\* enters comer.
PegarSegundo(i) ==
    /\ pc[i] = "segundo"
    /\ Livre(SegundoTalher(i))
    /\ talheres' = [talheres EXCEPT ![SegundoTalher(i)] = TRUE]
    /\ aquisicoes' = [aquisicoes EXCEPT ![i][SegundoTalher(i)] = @ + 1]
    /\ pc' = [pc EXCEPT ![i] = "comer"]
    /\ UNCHANGED <<num_filosofos, max_refeicoes, philosopher_id, refeicoes,
                   falha, liberacoes, principal, indice>>

\* comer, lines 75-77: the sleep ends and refeicoes is incremented; the
\* finally clause of line 100 then calls devolver_talheres.
Comer(i) ==
    /\ pc[i] = "comer"
    /\ refeicoes' = [refeicoes EXCEPT ![i] = @ + 1]
    /\ pc' = [pc EXCEPT ![i] = AposComer(FALSE)]
    /\ UNCHANGED <<num_filosofos, max_refeicoes, philosopher_id, talheres,
                   falha, aquisicoes, liberacoes, principal, indice>>

\* Line 81: talher_direito.release().  Releasing an unlocked Lock raises
\* RuntimeError, which leaves devolver_talheres and ends the thread.
DevolverDireito(i) ==
    /\ pc[i] = "devolver"
    /\ IF talheres[Devolvidos(i)[1]]
          THEN /\ talheres' = [talheres EXCEPT ![Devolvidos(i)[1]] = FALSE]
               /\ liberacoes' = [liberacoes EXCEPT ![i][Devolvidos(i)[1]] = @ + 1]
               /\ pc' = [pc EXCEPT ![i] = "devolver_esquerdo"]
               /\ falha' = falha
          ELSE /\ pc' = [pc EXCEPT ![i] = "terminou"]
               /\ falha' = [falha EXCEPT ![i] = "release"]
               /\ UNCHANGED <<talheres, liberacoes>>
    /\ UNCHANGED <<num_filosofos, max_refeicoes, philosopher_id, refeicoes,
                   aquisicoes, principal, indice>>

\* Line 84: talher_esquerdo.release(); devolver_talheres returns.  A pending
\* exception of comer now leaves the loop (lines 102-106); otherwise the
\* loop test of line 95 is evaluated again.
DevolverEsquerdo(i) ==
    /\ pc[i] = "devolver_esquerdo"
    /\ IF talheres[Devolvidos(i)[2]]
          THEN /\ talheres' = [talheres EXCEPT ![Devolvidos(i)[2]] = FALSE]
               /\ liberacoes' = [liberacoes EXCEPT ![i][Devolvidos(i)[2]] = @ + 1]
               /\ pc' = [pc EXCEPT ![i] =
                            IF falha[i] = "nenhuma" THEN ProximoPasso(refeicoes[i])
                                                    ELSE "terminou"]
               /\ falha' = falha
          ELSE /\ pc' = [pc EXCEPT ![i] = "terminou"]
               /\ falha' = [falha EXCEPT ![i] = "release"]
               /\ UNCHANGED <<talheres, liberacoes>>
    /\ UNCHANGED <<num_filosofos, max_refeicoes, philosopher_id, refeicoes,
                   aquisicoes, principal, indice>>

Passo(i) ==
    \/ Sentar(i)
    \/ Pensar(i)
    \/ PegarPrimeiro(i)
    \/ PegarSegundo(i)
    \/ Comer(i)
    \/ DevolverDireito(i)
    \/ DevolverEsquerdo(i)

Next ==
    \/ Iniciar
    \/ Aguardar
    \/ \E i \in Filosofos : Passo(i)

Spec == Init /\ [][Next]_vars

\* The program as written (N = 5, K = 3).
SpecJantar == InitJantar /\ [][Next]_vars

\* The negative control (uniform left-then-right order).
SpecUniforme == InitUniforme /\ [][Next]_vars

\* ---------------------------------------------------------------- failures
\* The two places where run and pegar_talheres handle an exception: the
\* second acquire (try of lines 65-71) and comer (try/finally of lines 98-101).
\* A blocking Lock.acquire() does not raise by itself, so these steps are not
\* part of Spec; SpecFalhas adds them as inputs of the environment.

\* Line 66 raises: the except clause of line 68 is entered, holding the
\* first fork.
FalharSegundo(i) ==
    /\ pc[i] = "segundo"
    /\ pc' = [pc EXCEPT ![i] = "rollback"]
    /\ falha' = [falha EXCEPT ![i] = "segundo"]
    /\ UNCHANGED <<num_filosofos, max_refeicoes, philosopher_id, talheres,
                   refeicoes, aquisicoes, liberacoes, principal, indice>>

\* Lines 70-71: primeiro_talher.release(), then the exception is re-raised;
\* pegar_talheres is called outside the inner try of run, so the exception
\* leaves the loop (lines 102-106) and the thread ends.
Rollback(i) ==
    /\ pc[i] = "rollback"
    /\ IF talheres[Revertido(i)]
          THEN /\ talheres' = [talheres EXCEPT ![Revertido(i)] = FALSE]
               /\ liberacoes' = [liberacoes EXCEPT ![i][Revertido(i)] = @ + 1]
               /\ falha' = falha
          ELSE /\ falha' = [falha EXCEPT ![i] = "release"]
               /\ UNCHANGED <<talheres, liberacoes>>
    /\ pc' = [pc EXCEPT ![i] = "terminou"]
    /\ UNCHANGED <<num_filosofos, max_refeicoes, philosopher_id, refeicoes,
                   aquisicoes, principal, indice>>

\* comer raises before line 77: refeicoes is not incremented and the finally
\* clause of line 100 calls devolver_talheres with the exception pending.
FalharComer(i) ==
    /\ pc[i] = "comer"
    /\ pc' = [pc EXCEPT ![i] = AposComer(TRUE)]
    /\ falha' = [falha EXCEPT ![i] = "comer"]
    /\ UNCHANGED <<num_filosofos, max_refeicoes, philosopher_id, talheres,
                   refeicoes, aquisicoes, liberacoes, principal, indice>>

Falha(i) ==
    \/ FalharSegundo(i)
    \/ Rollback(i)
    \/ FalharComer(i)

NextFalhas ==
    \/ Next
    \/ \E i \in Filosofos : Falha(i)

SpecFalhas == Init /\ [][NextFalhas]_vars

\* ---------------------------------------------------------------- fairness
\* Every started thread that can take a step is eventually scheduled (the
\* interpreter switches threads pre-emptively); the main thread likewise.
\* A failure is an input and is never forced to happen.
MaiorMesa == IF NUM_FILOSOFOS > MaxFilosofos THEN NUM_FILOSOFOS ELSE MaxFilosofos

PassoDe(i) == i \in Filosofos /\ (Passo(i) \/ Rollback(i))

Justica ==
    /\ WF_vars(Iniciar)
    /\ WF_vars(Aguardar)
    /\ \A i \in 0 .. (MaiorMesa - 1) : WF_vars(PassoDe(i))

SpecJusto == Spec /\ Justica

\* For the program as written only WF_vars(Next) is assumed: some thread that
\* can take a step eventually takes one.  Justica implies it (in a state that
\* is never left, an enabled step of some thread stays enabled), so what
\* holds under SpecJantarJusto holds under per-thread fairness too.
SpecJantarJusto == SpecJantar /\ WF_vars(Next)

SpecFalhasJusto == SpecFalhas /\ Justica

\* The steps of NextFalhas that are not failures; WF_vars(PassoSemFalha) is
\* implied by Justica in the same way.
PassoSemFalha == Next \/ \E i \in Filosofos : Rollback(i)

SpecFalhasJustoFraco == SpecFalhas /\ WF_vars(PassoSemFalha)

\* ---------------------------------------------------------------- vocabulary

Terminou(i) == pc[i] = "terminou"
Finalizado == principal = "finalizado"

\* Thread i is inside acquire() on fork f and f is locked.
Bloqueado(i) ==
    \/ pc[i] = "primeiro" /\ ~Livre(PrimeiroTalher(i))
    \/ pc[i] = "segundo" /\ ~Livre(SegundoTalher(i))

\* Some agent has not terminated and every such agent is blocked in acquire.
Impasse ==
    /\ \E i \in Filosofos : ~Terminou(i)
    /\ \A i \in Filosofos : ~Terminou(i) => Bloqueado(i)

\* Every agent holds its first fork and waits for its second.
EsperaCircular == \A i \in Filosofos : pc[i] = "segundo"

\* No thread ended with an exception.
SemFalhas == \A i \in Filosofos : falha[i] = "nenhuma"

\* Successful acquire / release calls on fork f, over all agents.
RECURSIVE Soma(_, _, _)
Soma(cont, f, n) == IF n = 0 THEN 0 ELSE cont[n - 1][f] + Soma(cont, f, n - 1)

TotalAquisicoes(f) == Soma(aquisicoes, f, num_filosofos)
TotalLiberacoes(f) == Soma(liberacoes, f, num_filosofos)

\* ---------------------------------------------------------------- claims

\* C1: under fair scheduling every philosopher eventually terminates and the
\* main thread eventually reports completion, for every ring size and target
\* within the bounds.
C1_Terminacao ==
    /\ \A i \in 0 .. (MaiorMesa - 1) : <>(i \in Filosofos => Terminou(i))
    /\ <>Finalizado

\* C1 witness: a run has completed after every philosopher ate its target.
C1_Witness ==
    /\ Finalizado
    /\ num_filosofos = MaxFilosofos
    /\ max_refeicoes = MaxRefeicoes
    /\ \A i \in Filosofos : Terminou(i) /\ refeicoes[i] = max_refeicoes

\* C2: no reachable state is a deadlock -- it is never the case that some
\* agent has not terminated while every non-terminated agent is blocked in
\* acquire() on a locked fork.
C2_SemImpasse == ~Impasse

\* C2 witness: the closest the table gets to a deadlock -- all agents but one
\* are blocked in acquire(), some on their first and some on their second
\* fork, and the remaining one holds both its forks.
C2_Witness ==
    /\ num_filosofos = MaxFilosofos
    /\ \E i \in Filosofos : Bloqueado(i) /\ pc[i] = "segundo"
    /\ \E j \in Filosofos : Bloqueado(j) /\ pc[j] = "primeiro"
    /\ Cardinality({i \in Filosofos : Bloqueado(i)}) = num_filosofos - 1

\* C3: every fork is held by at most one philosopher at a time.
C3_ExclusaoMutua ==
    \A f \in Talheres : Cardinality({i \in Filosofos : Segura(i, f)}) <= 1

\* C3 witness: a fork is held by one philosopher while its other neighbour is
\* blocked in acquire() on it.
C3_Witness ==
    \E i, j \in Filosofos :
        /\ i # j
        /\ Segura(i, PrimeiroTalher(j))
        /\ pc[j] = "primeiro"
        /\ Bloqueado(j)

\* C4 as stated: an agent holds exactly one fork only inside its acquisition
\* attempt, after acquiring the first fork and before acquiring the second
\* (or giving the first one back); never while Thinking, Consuming,
\* Releasing or Terminated.
C4_Original ==
    \A i \in Filosofos :
        Cardinality(Posse(i)) = 1 => pc[i] \in {"segundo", "rollback"}

\* C4 amended: an agent holds exactly one fork only inside pegar_talheres
\* (its first fork, between the two acquire calls) or inside
\* devolver_talheres (its left fork, between the two release calls); it
\* holds both forks while Consuming and when it enters devolver_talheres,
\* and none otherwise (not started, Thinking, waiting for its first fork,
\* Terminated).
C4_ZeroOuDois ==
    \A i \in Filosofos :
        /\ pc[i] \in {"criado", "sentou", "pensar", "primeiro", "terminou"}
              => Posse(i) = {}
        /\ pc[i] \in {"segundo", "rollback"} => Posse(i) = {PrimeiroTalher(i)}
        /\ pc[i] \in {"comer", "devolver"}
              => Posse(i) = {talher_esquerdo(i), talher_direito(i)}
        /\ pc[i] = "devolver_esquerdo" => Posse(i) = {talher_esquerdo(i)}

\* C4 witness: one agent is between its two release calls, holding only its
\* left fork, while another is between its two acquire calls.
C4_Witness ==
    \E i, j \in Filosofos :
        /\ pc[i] = "devolver_esquerdo"
        /\ Posse(i) = {talher_esquerdo(i)}
        /\ pc[j] = "segundo"
        /\ Cardinality(Posse(j)) = 1

\* C5: a terminated agent, whether it ended normally or through a failure,
\* has released every fork as many times as it acquired it; once all agents
\* have terminated every fork is unlocked.
C5_SemVazamento ==
    /\ \A i \in Filosofos :
          Terminou(i) => \A f \in Talheres : aquisicoes[i][f] = liberacoes[i][f]
    /\ (\A i \in Filosofos : Terminou(i)) => \A f \in Talheres : ~talheres[f]

\* C5 witness: all agents have terminated, one after a failed second
\* acquire, one after a failed meal and one normally, each having acquired
\* forks.
C5_Witness ==
    /\ \A i \in Filosofos : Terminou(i)
    /\ \E i, j, k \in Filosofos :
          /\ falha[i] = "segundo" /\ aquisicoes[i][PrimeiroTalher(i)] >= 1
          /\ falha[j] = "comer" /\ aquisicoes[j][SegundoTalher(j)] >= 1
          /\ falha[k] = "nenhuma" /\ aquisicoes[k][SegundoTalher(k)] = max_refeicoes
          /\ max_refeicoes >= 1

\* C6: when the main thread has reported completion of a run in which no
\* agent failed, every agent's refeicoes equals the target.
C6_Contagem ==
    (Finalizado /\ SemFalhas) => \A i \in Filosofos : refeicoes[i] = max_refeicoes

\* C6 witness: a failure-free run with the largest table and target completed.
C6_Witness ==
    /\ Finalizado
    /\ SemFalhas
    /\ num_filosofos = MaxFilosofos
    /\ max_refeicoes = MaxRefeicoes
    /\ \A i \in Filosofos : aquisicoes[i][SegundoTalher(i)] = max_refeicoes

\* C7: the program as written (5 philosophers, 3 meals): under fair
\* scheduling the run completes, and when it has completed every philosopher
\* has eaten exactly 3 times and every fork has been acquired exactly 6 times
\* and released exactly 6 times.
C7_Jantar ==
    /\ <>Finalizado
    /\ [](Finalizado =>
            /\ num_filosofos = 5 /\ max_refeicoes = 3
            /\ \A i \in Filosofos : Terminou(i) /\ refeicoes[i] = 3
            /\ \A f \in Talheres :
                  TotalAquisicoes(f) = 6 /\ TotalLiberacoes(f) = 6)

\* C7 witness: the run of 5 philosophers and 3 meals has completed.
C7_Witness ==
    /\ Finalizado
    /\ num_filosofos = 5
    /\ \A i \in Filosofos : refeicoes[i] = 3
    /\ \A f \in Talheres : TotalAquisicoes(f) = 6

\* C8: with a uniform left-then-right order, the state in which every agent
\* has acquired its first fork is a deadlock: every agent holds exactly its
\* left fork, is blocked in acquire() on its right fork, and the table never
\* leaves that state.
C8_ImpasseUniforme ==
    /\ [](EsperaCircular =>
            /\ Impasse
            /\ \A i \in Filosofos :
                  /\ Posse(i) = {talher_esquerdo(i)}
                  /\ Bloqueado(i) /\ SegundoTalher(i) = talher_direito(i))
    /\ [][EsperaCircular => EsperaCircular']_vars

\* C8 witness: the circular wait is reached at a table of at least 3 agents
\* ordered uniformly, while the main thread waits in join().
C8_Witness ==
    /\ num_filosofos >= 3
    /\ \A i \in Filosofos : PrimeiroTalher(i) = talher_esquerdo(i)
    /\ EsperaCircular
    /\ Impasse
    /\ principal = "aguardando"

\* C9: at a table of two, the two agents share the same two forks in
\* opposite roles and acquire them in the same order, no deadlock state is
\* reached, and under fair scheduling the run completes with every agent at
\* its target.
C9_MesaDeDois ==
    /\ [](num_filosofos = 2 =>
            /\ talher_esquerdo(0) = talher_direito(1)
            /\ talher_direito(0) = talher_esquerdo(1)
            /\ Ordem(0) = Ordem(1)
            /\ ~Impasse)
    /\ (num_filosofos = 2 =>
            <>(/\ Finalizado
               /\ \A i \in Filosofos : Terminou(i) /\ refeicoes[i] = max_refeicoes))

\* C9 witness: at a table of two, after a first meal, one agent holds the
\* first fork of the common order and the other is blocked on it.
C9_Witness ==
    /\ num_filosofos = 2
    /\ \E i, j \in Filosofos :
          /\ i # j
          /\ pc[i] = "segundo" /\ Segura(i, PrimeiroTalher(i))
          /\ pc[j] = "primeiro" /\ Bloqueado(j)
          /\ refeicoes[j] >= 1

\* C10: every acquire() that returns follows the parity order -- an even
\* agent i acquires fork i holding nothing and fork (i+1) mod N holding
\* exactly fork i; an odd agent acquires fork (i+1) mod N holding nothing and
\* fork i holding exactly fork (i+1) mod N; an agent requesting its second
\* fork holds its first.
C10_Adquire(i, f) ==
    IF i % 2 = 0
        THEN \/ f = i /\ Posse(i) = {}
             \/ f = (i + 1) % num_filosofos /\ Posse(i) = {i}
        ELSE \/ f = (i + 1) % num_filosofos /\ Posse(i) = {}
             \/ f = i /\ Posse(i) = {(i + 1) % num_filosofos}

C10_OrdemDeAquisicao ==
    /\ [][\A i \in Filosofos : \A f \in Talheres :
            aquisicoes'[i][f] # aquisicoes[i][f] => C10_Adquire(i, f)]_vars
    /\ [](\A i \in Filosofos :
            /\ philosopher_id[i] = i
            /\ pc[i] = "segundo" =>
                  Posse(i) = {IF i % 2 = 0 THEN i ELSE (i + 1) % num_filosofos})

\* C10 witness: an even agent holds its left fork and requests its right one
\* while an odd agent holds its right fork and requests its left one.
C10_Witness ==
    \E i, j \in Filosofos :
        /\ i % 2 = 0 /\ pc[i] = "segundo" /\ Posse(i) = {talher_esquerdo(i)}
        /\ j % 2 = 1 /\ pc[j] = "segundo" /\ Posse(j) = {talher_direito(j)}

\* C11: the main thread reports completion only after every philosopher has
\* terminated -- when it has reported, no philosopher is still created,
\* thinking, acquiring, eating or releasing, and none holds a fork; and it
\* passes from waiting to finished only in a state where all have terminated.
C11_ConclusaoAposTodos ==
    /\ [](Finalizado =>
            \A i \in Filosofos : Terminou(i) /\ Posse(i) = {} /\ ~talheres[i])
    /\ [][(~Finalizado /\ Finalizado') =>
            \A i \in Filosofos : Terminou(i) /\ Posse(i) = {}]_vars

\* C11 witness: completion has been reported at the largest table after
\* every fork was used, one philosopher having failed.
C11_Witness ==
    /\ Finalizado
    /\ num_filosofos = MaxFilosofos
    /\ \A f \in Talheres : TotalAquisicoes(f) >= 1 /\ ~talheres[f]
    /\ \E i \in Filosofos : falha[i] # "nenhuma"

\* C12: a failure ends only the agent it happens to.  A failed agent ends
\* holding no fork; under fair scheduling every agent terminates, the main
\* thread still reports completion, and every agent that did not itself fail
\* has eaten its target when it terminates, whatever its neighbours did.
C12_FalhaIsolada ==
    /\ <>(Finalizado /\ \A i \in Filosofos : Terminou(i))
    /\ [](\A i \in Filosofos :
            Terminou(i) =>
                /\ Posse(i) = {}
                /\ falha[i] = "nenhuma" => refeicoes[i] = max_refeicoes
                /\ falha[i] # "nenhuma" => refeicoes[i] < max_refeicoes)
    /\ [][\A i \in Filosofos :
            (falha[i] = "nenhuma" /\ falha'[i] # "nenhuma") =>
                \A j \in Filosofos \ {i} :
                    /\ falha'[j] = falha[j]
                    /\ pc'[j] = pc[j]
                    /\ refeicoes'[j] = refeicoes[j]]_vars

\* C12 witness: exactly one agent failed early and the run completed with
\* every other agent at its target.
C12_Witness ==
    /\ Finalizado
    /\ max_refeicoes = MaxRefeicoes
    /\ num_filosofos = MaxFilosofos
    /\ \E i \in Filosofos :
          /\ falha[i] # "nenhuma"
          /\ refeicoes[i] < max_refeicoes
          /\ Posse(i) = {}
          /\ \A j \in Filosofos \ {i} :
                falha[j] = "nenhuma" /\ refeicoes[j] = max_refeicoes

\* Position of fork f in the acquisition order of agent i (1 or 2).
Posicao(i, f) == IF Ordem(i)[1] = f THEN 1 ELSE 2

\* C13 as stated: for every pair of agents i and (i+1) mod N, the fork they
\* share, (i+1) mod N, is the first acquisition of one of them and the second
\* acquisition of the other.
C13_Original ==
    \A i \in Filosofos :
        {Posicao(i, talher_direito(i)),
         Posicao(talher_direito(i), talher_direito(i))} = {1, 2}

\* C13 amended: the fork shared by agents i and (i+1) mod N is the second
\* acquisition of both when i is even and (i+1) mod N is odd, and the first
\* acquisition of both when i is odd; it is the second of one and the first
\* of the other only for the pair (N-1, 0) of a ring of odd size, whose two
\* agents are both even.
C13_ParesAdjacentes ==
    \A i \in Filosofos :
        LET j == (i + 1) % num_filosofos
            f == talher_direito(i)
        IN  /\ f = talher_esquerdo(j)
            /\ (i % 2 = 0 /\ j % 2 = 1) =>
                  Posicao(i, f) = 2 /\ Posicao(j, f) = 2
            /\ i % 2 = 1 => (j % 2 = 0 /\ Posicao(i, f) = 1 /\ Posicao(j, f) = 1)
            /\ (i % 2 = 0 /\ j % 2 = 0) =>
                  /\ i = num_filosofos - 1 /\ j = 0 /\ num_filosofos % 2 = 1
                  /\ Posicao(i, f) = 2 /\ Posicao(j, f) = 1

\* C13 witness: at a ring of odd size, agents 0 and 1 each hold their first
\* fork and both request fork 1, the second fork of both, while agent N-1
\* waits for fork 0, its second fork and the first fork of agent 0.
C13_Witness ==
    /\ num_filosofos % 2 = 1
    /\ pc[0] = "segundo" /\ SegundoTalher(0) = 1
    /\ pc[1] = "segundo" /\ SegundoTalher(1) = 1
    /\ PrimeiroTalher(0) = SegundoTalher(num_filosofos - 1)

\* C14: when the second acquire fails, the failing step leaves every lock
\* and counter as it was; the agent then releases its first fork, and in
\* that step it terminates, holds nothing, leaves the second fork's lock as
\* it was and releases nothing else; it ends with as many meals as second
\* forks acquired, i.e. the failed attempt was followed neither by comer nor
\* by devolver_talheres.
C14_Falhou(i) ==
    (pc[i] = "segundo" /\ pc'[i] # "segundo" /\ pc'[i] # "comer") =>
        /\ pc'[i] = "rollback"
        /\ falha'[i] = "segundo"
        /\ talheres' = talheres
        /\ Posse(i)' = {PrimeiroTalher(i)}

C14_Reverteu(i) ==
    (pc[i] = "rollback" /\ pc'[i] # "rollback") =>
        /\ pc'[i] = "terminou"
        /\ falha'[i] = "segundo"
        /\ Posse(i)' = {}
        /\ talheres' = [talheres EXCEPT ![PrimeiroTalher(i)] = FALSE]
        /\ liberacoes'[i] =
              [liberacoes[i] EXCEPT ![PrimeiroTalher(i)] = @ + 1]
        /\ refeicoes' = refeicoes

C14_Rollback ==
    /\ [][\A i \in Filosofos : C14_Falhou(i) /\ C14_Reverteu(i)]_vars
    /\ [](\A i \in Filosofos :
            /\ pc[i] = "rollback" =>
                  Posse(i) = {PrimeiroTalher(i)} /\ talheres[PrimeiroTalher(i)]
            /\ falha[i] = "segundo" => pc[i] \in {"rollback", "terminou"}
            /\ (falha[i] = "segundo" /\ Terminou(i)) =>
                  /\ Posse(i) = {}
                  /\ aquisicoes[i][SegundoTalher(i)] = refeicoes[i]
                  /\ liberacoes[i][SegundoTalher(i)] = refeicoes[i]
                  /\ aquisicoes[i][PrimeiroTalher(i)] = refeicoes[i] + 1)

\* C14 witness: an agent whose second acquire failed while its neighbour
\* held that fork has rolled back and terminated; the neighbour still holds
\* the fork.
C14_Witness ==
    \E i, j \in Filosofos :
        /\ i # j
        /\ falha[i] = "segundo" /\ Terminou(i) /\ Posse(i) = {}
        /\ refeicoes[i] >= 1
        /\ Segura(j, SegundoTalher(i)) /\ talheres[SegundoTalher(i)]

\* C15: every step out of Consuming, with or without a failure, enters
\* devolver_talheres holding both forks; from there the agent reaches
\* Thinking or Terminated only through the two releases, so it holds nothing
\* when it thinks again or terminates.  A failed meal does not change
\* refeicoes: an agent that ended by a failure of comer holds nothing and
\* has eaten one meal less than it acquired pairs of forks.
C15_SaiDeComer(i) ==
    (pc[i] = "comer" /\ pc'[i] # "comer") =>
        /\ pc'[i] = "devolver"
        /\ Posse(i)' = {talher_esquerdo(i), talher_direito(i)}
        /\ talheres' = talheres
        /\ falha'[i] = "comer" => refeicoes'[i] = refeicoes[i]
        /\ falha'[i] = "nenhuma" => refeicoes'[i] = refeicoes[i] + 1

C15_Devolve(i) ==
    /\ (pc[i] = "devolver" /\ pc'[i] # "devolver") =>
          /\ pc'[i] = "devolver_esquerdo"
          /\ Posse(i)' = {talher_esquerdo(i)}
          /\ ~talheres'[talher_direito(i)]
    /\ (pc[i] = "devolver_esquerdo" /\ pc'[i] # "devolver_esquerdo") =>
          /\ pc'[i] \in {"pensar", "terminou"}
          /\ falha[i] = "comer" => pc'[i] = "terminou"
          /\ Posse(i)' = {}
          /\ ~talheres'[talher_esquerdo(i)]

C15_DevolveSempre ==
    /\ [][\A i \in Filosofos : C15_SaiDeComer(i) /\ C15_Devolve(i)]_vars
    /\ [](\A i \in Filosofos :
            /\ pc[i] \in {"pensar", "terminou"} => Posse(i) = {}
            /\ falha[i] = "comer" =>
                  /\ pc[i] \in {"devolver", "devolver_esquerdo", "terminou"}
                  /\ aquisicoes[i][SegundoTalher(i)] = refeicoes[i] + 1
            /\ (falha[i] = "comer" /\ Terminou(i)) =>
                  \A f \in Talheres : aquisicoes[i][f] = liberacoes[i][f])

\* C15 witness: an agent has terminated after a failed second meal, holding
\* nothing, with its two forks unlocked, and another thinks again after a
\* successful meal.
C15_Witness ==
    \E i, j \in Filosofos :
        /\ falha[i] = "comer" /\ Terminou(i) /\ refeicoes[i] = 1
        /\ ~talheres[talher_esquerdo(i)] /\ ~talheres[talher_direito(i)]
        /\ pc[j] = "pensar" /\ refeicoes[j] = 1 /\ falha[j] = "nenhuma"

\* C16: an agent terminates without failure only with refeicoes equal to the
\* target, and whenever it evaluates the loop test with refeicoes equal to
\* the target it terminates (it never thinks, acquires or eats again with
\* its target reached); once terminated it stays terminated, its counter and
\* its acquire and release counts never change, and it holds nothing.
C16_Entra(i) ==
    /\ (~Terminou(i) /\ Terminou(i)' /\ falha'[i] = "nenhuma") =>
          refeicoes[i] = max_refeicoes
    /\ (/\ pc[i] \in {"sentou", "devolver_esquerdo"}
        /\ pc'[i] # pc[i]
        /\ falha[i] = "nenhuma"
        /\ refeicoes[i] = max_refeicoes) => Terminou(i)'

C16_Permanece(i) ==
    Terminou(i) =>
        /\ Terminou(i)'
        /\ refeicoes'[i] = refeicoes[i]
        /\ aquisicoes'[i] = aquisicoes[i]
        /\ liberacoes'[i] = liberacoes[i]
        /\ falha'[i] = falha[i]

C16_TerminadoAbsorvente ==
    /\ [][\A i \in Filosofos : C16_Entra(i) /\ C16_Permanece(i)]_vars
    /\ [](\A i \in Filosofos :
            /\ Terminou(i) => Posse(i) = {}
            /\ (Terminou(i) /\ falha[i] = "nenhuma") =>
                  refeicoes[i] = max_refeicoes
            /\ pc[i] \in {"pensar", "primeiro", "segundo", "comer"} =>
                  refeicoes[i] < max_refeicoes)

\* C16 witness: an agent has terminated at its target while a neighbour,
\* still short of its own, holds a fork they share.
C16_Witness ==
    \E i, j \in Filosofos :
        /\ i # j
        /\ Terminou(i) /\ falha[i] = "nenhuma"
        /\ refeicoes[i] = max_refeicoes /\ max_refeicoes = MaxRefeicoes
        /\ refeicoes[j] < max_refeicoes
        /\ \E f \in {talher_esquerdo(i), talher_direito(i)} : Segura(j, f)

\* C17: an agent that is Thinking, in its first iteration or after a
\* release, holds neither of its forks, and every step into Thinking ends
\* holding nothing.
C17_PensarSemTalheres ==
    /\ [](\A i \in Filosofos :
            pc[i] = "pensar" =>
                /\ ~Segura(i, talher_esquerdo(i))
                /\ ~Segura(i, talher_direito(i))
                /\ Posse(i) = {})
    /\ [][\A i \in Filosofos :
            (pc[i] # "pensar" /\ pc'[i] = "pensar") =>
                /\ pc[i] \in {"sentou", "devolver_esquerdo"}
                /\ Posse(i)' = {}]_vars

\* C17 witness: one agent thinks before its first meal and another thinks
\* again after a meal, while a fork next to it is locked by a neighbour.
C17_Witness ==
    \E i, j \in Filosofos :
        /\ pc[i] = "pensar" /\ refeicoes[i] = 0
        /\ pc[j] = "pensar" /\ refeicoes[j] >= 1
        /\ liberacoes[j][talher_esquerdo(j)] >= 1
        /\ talheres[talher_esquerdo(j)] \/ talheres[talher_direito(j)]

\* The agents that are Consuming.
Comendo == {i \in Filosofos : pc[i] = "comer"}

\* C18: an agent that is Consuming holds both its left and its right fork
\* and both locks are locked; two neighbours at the table never consume at
\* the same time, and at most floor(N/2) agents consume at the same time.
C18_VizinhosNaoComemJuntos ==
    /\ \A i \in Comendo :
          /\ Segura(i, talher_esquerdo(i)) /\ talheres[talher_esquerdo(i)]
          /\ Segura(i, talher_direito(i)) /\ talheres[talher_direito(i)]
    /\ \A i \in Filosofos : ~({i, (i + 1) % num_filosofos} \subseteq Comendo)
    /\ 2 * Cardinality(Comendo) <= num_filosofos

\* C18 witness: at the largest table floor(N/2) agents consume while a
\* neighbour of one of them is blocked on a fork it holds.
C18_Witness ==
    /\ num_filosofos = MaxFilosofos
    /\ Cardinality(Comendo) = num_filosofos \div 2
    /\ \E i \in Comendo, j \in Filosofos :
          /\ j \in {(i + 1) % num_filosofos, (i + num_filosofos - 1) % num_filosofos}
          /\ Bloqueado(j)
          /\ refeicoes[i] >= 1

\* C19: an agent never calls acquire() on a fork it holds, and every
\* release() call is made on a locked fork that the caller itself holds: no
\* release ever finds its lock unlocked (no RuntimeError) or unlocks a fork
\* held by a neighbour.
C19_Chama(i) ==
    /\ pc[i] = "primeiro" => ~Segura(i, PrimeiroTalher(i))
    /\ pc[i] = "segundo" =>
          ~Segura(i, SegundoTalher(i)) /\ SegundoTalher(i) # PrimeiroTalher(i)
    /\ pc[i] = "devolver" =>
          Segura(i, Devolvidos(i)[1]) /\ talheres[Devolvidos(i)[1]]
    /\ pc[i] = "devolver_esquerdo" =>
          Segura(i, Devolvidos(i)[2]) /\ talheres[Devolvidos(i)[2]]
    /\ pc[i] = "rollback" => Segura(i, Revertido(i)) /\ talheres[Revertido(i)]
    /\ falha[i] # "release"

C19_Passo(i, f) ==
    /\ aquisicoes'[i][f] # aquisicoes[i][f] => ~Segura(i, f) /\ ~talheres[f]
    /\ liberacoes'[i][f] # liberacoes[i][f] => Segura(i, f) /\ talheres[f]
    /\ (talheres[f] /\ ~talheres'[f] /\ pc'[i] # pc[i]) => Segura(i, f)

C19_Disciplina ==
    /\ [](\A i \in Filosofos : C19_Chama(i))
    /\ [][\A i \in Filosofos : \A f \in Talheres : C19_Passo(i, f)]_vars
    /\ [](\A f \in Talheres :
            talheres[f] <=> \E i \in Filosofos : Segura(i, f))

\* C19 witness: one agent is about to release its right fork and another is
\* about to roll back its first fork, each holding the fork it will release,
\* after a first round of meals.
C19_Witness ==
    \E i, j \in Filosofos :
        /\ pc[i] = "devolver" /\ Segura(i, talher_direito(i))
        /\ refeicoes[i] = MaxRefeicoes
        /\ pc[j] = "rollback" /\ Segura(j, PrimeiroTalher(j))
        /\ refeicoes[j] >= 1

\* C20: refeicoes starts at 0 for every agent; a step changes the counter of
\* at most the agent that takes it, only by +1, and only from Consuming with
\* both forks held; the counter stays between 0 and the target; with target
\* 0 an agent never acquires a fork and goes from the start of run straight
\* to Terminated.
C20_Incremento(i) ==
    refeicoes'[i] # refeicoes[i] =>
        /\ refeicoes'[i] = refeicoes[i] + 1
        /\ pc[i] = "comer" /\ pc'[i] # pc[i]
        /\ Posse(i) = {talher_esquerdo(i), talher_direito(i)}
        /\ Posse(i)' = Posse(i)
        /\ \A j \in Filosofos \ {i} :
              refeicoes'[j] = refeicoes[j] /\ pc'[j] = pc[j]

C20_Contador ==
    /\ \A i \in Filosofos : refeicoes[i] = 0
    /\ [][\A i \in Filosofos : C20_Incremento(i)]_vars
    /\ [](\A i \in Filosofos :
            /\ 0 <= refeicoes[i] /\ refeicoes[i] <= max_refeicoes
            /\ max_refeicoes = 0 =>
                  /\ pc[i] \in {"criado", "sentou", "terminou"}
                  /\ \A f \in Talheres : aquisicoes[i][f] = 0)

\* C20 witness: an agent has just counted its last meal, still holding both
\* forks, while a neighbour's counter is unchanged at 0.
C20_Witness ==
    \E i, j \in Filosofos :
        /\ i # j
        /\ pc[i] = "devolver" /\ falha[i] = "nenhuma"
        /\ refeicoes[i] = max_refeicoes /\ max_refeicoes = MaxRefeicoes
        /\ Posse(i) = {talher_esquerdo(i), talher_direito(i)}
        /\ refeicoes[j] = 0 /\ Bloqueado(j)
====
